---- MODULE Spec2Model ----
(***************************************************************************)
(* Realtime-tracker: the position-update and geocode-throttling pipeline   *)
(* of src/app.js, as a state machine.                                      *)
(*                                                                         *)
(* Units.  Latitude and longitude are counted in grid steps of 0.0001      *)
(* degree around (0,0); distances are in decimetres; clock readings and    *)
(* the throttle are in milliseconds; headings are fixed-point numbers in   *)
(* units of 1/Scale degree, so that 0.18 * diff is computed exactly.       *)
(***************************************************************************)
EXTENDS Integers, Sequences, FiniteSets, TLC

VARIABLES
    hasGeolocation,          \* navigator.geolocation exists
    orientationApi,          \* "none" | "direct" | "permission" (DeviceOrientationEvent)
    clock,                   \* what Date.now() returns
    activeWatches,           \* watch ids registered with navigator.geolocation
    listeners,               \* event types handleDeviceOrientation is registered for
    pendingPermission,       \* unresolved DeviceOrientationEvent.requestPermission() promises
    inflight,                \* lookups awaiting getAddress (suspended updateAddress calls)
    hideTimers,              \* pending setTimeout callbacks armed by showStatus
    storage,                 \* localStorage item 'realtimetracker.path'
    status,                  \* elements.statusMessage
    marker,                  \* state.marker
    watchId,                 \* state.watchId
    accuracyCircle,          \* state.accuracyCircle
    pathLine,                \* state.pathLine (its latlngs)
    mapCenter,               \* state.map: the centre of the view
    pathCoords,              \* state.pathCoords
    currentHeading,          \* state.currentHeading
    deviceOrientationActive, \* state.deviceOrientationActive
    lastGeocodeTime,         \* state.lastGeocodeTime
    lastGeocodePos,          \* state.lastGeocodePos
    issued,                  \* history: start times of the lookups issued so far
    lastEvent,               \* history: the handler or lookup continuation that ran last, and its outcome
    probe                    \* arguments and result of the pure function under check

platformVars == <<hasGeolocation, orientationApi, clock, activeWatches, listeners,
                  pendingPermission, inflight, hideTimers, storage, status>>
stateVars == <<marker, watchId, accuracyCircle, pathLine, mapCenter, pathCoords,
               currentHeading, deviceOrientationActive, lastGeocodeTime, lastGeocodePos>>
vars == <<platformVars, stateVars, issued, lastEvent, probe>>

----------------------------------------------------------------------------
(* Bounds of the model *)

MaxPath == 2          \* longest pathCoords explored
MaxClock == 6101      \* largest clock reading explored
StartClock == 5000    \* clock reading when the page loads
SmoothDepth == 1      \* smoothing steps whose result is exactly representable
MaxPending == 1       \* unresolved permission requests
MaxTimers == 1        \* pending auto-hide timers
MaxRestored == 3      \* longest persisted path restored at startup
ScenarioEnd == 1200   \* last clock reading of the throttle scenario

(* Program constants *)

GEOCODE_DISTANCE_THRESHOLD == 20
GEOCODE_TIME_THROTTLE == 1100
MIN_GEOCODE_ACCURACY == 60
HEADING_SMOOTHING_ALPHA == 18      \* in hundredths: 0.18
DEFAULT_ACCURACY == 20
DM_PER_STEP == 111                 \* 6371000 m * (0.0001 * PI / 180) = 11.119 m

Scale == 50 ^ SmoothDepth
Deg(d) == d * Scale
FullTurn == Deg(360)

----------------------------------------------------------------------------
(* JavaScript values *)

Null == [tag |-> "null", val |-> 0]
NaN == [tag |-> "nan", val |-> 0]
Num(v) == [tag |-> "num", val |-> v]
PosInfinity == [tag |-> "inf", val |-> 1]
NegInfinity == [tag |-> "inf", val |-> -1]

IsNumber(x) == x.tag \in {"num", "nan", "inf"}   \* typeof x === 'number'
IsNaN(x) == x.tag = "nan"                        \* isNaN(x), for x a number
IsFinite(x) == x.tag = "num"                     \* a number other than NaN and +-Infinity
\* null, undefined, NaN and 0 are falsy
Truthy(x) == (x.tag = "num" /\ x.val # 0) \/ x.tag = "inf"

JsRem(a, b) == IF a >= 0 THEN a % b ELSE -((-a) % b)   \* the % of JavaScript

NoPos == <<>>
NoMarker == [tag |-> "null"]
NoCircle == [tag |-> "null"]
NoPopup == [tag |-> "null"]
NoItem == [tag |-> "null"]

----------------------------------------------------------------------------
(* Inputs *)

Sample(lat, lon, accuracy, heading) ==
    [lat |-> lat, lon |-> lon, accuracy |-> accuracy, heading |-> heading]

\* from (0,0), (0,1) is 11.1 m away and (1,2) is 24.8 m away; (0,1) to (1,2) is 15.7 m
Samples == {Sample(0, 0, Null, Null),
            Sample(0, 1, Num(60), NaN),
            Sample(1, 2, Num(60), Num(Deg(100))),
            Sample(1, 2, Num(61), Null)}
Alphas == {Null, Num(Deg(350))}
ErrorCodes == {0, 1, 2, 3}
ClockSteps == {1100, 1101}

----------------------------------------------------------------------------
(* Pure functions *)

\* variant: the result is not brought back into [0, 360)
smoothHeadingUnwrapped(prev, next) ==
    IF ~IsNumber(next) \/ IsNaN(next) THEN prev
    ELSE IF ~IsNumber(prev) \/ IsNaN(prev) THEN next
    ELSE IF ~IsFinite(prev) \/ ~IsFinite(next) THEN NaN   \* (+-Infinity) % 360 is NaN
    ELSE LET diff == JsRem(next.val - prev.val + Deg(540), FullTurn) - Deg(180)
         IN  Num(prev.val + (HEADING_SMOOTHING_ALPHA * diff) \div 100 + FullTurn)

\* variant: the raw difference next - prev instead of the shortest one
smoothHeadingRawDiff(prev, next) ==
    IF ~IsNumber(next) \/ IsNaN(next) THEN prev
    ELSE IF ~IsNumber(prev) \/ IsNaN(prev) THEN next
    ELSE IF ~IsFinite(prev) \/ ~IsFinite(next) THEN NaN   \* (+-Infinity) % 360 is NaN
    ELSE LET diff == next.val - prev.val
         IN  Num(JsRem(prev.val + (HEADING_SMOOTHING_ALPHA * diff) \div 100 + FullTurn,
                       FullTurn))

\* variant: the difference is brought into (-180, 180]
headingDiffUpperClosed(prev, next) ==
    Deg(180) - JsRem(prev.val - next.val + Deg(540), FullTurn)

\* ((next - prev + 540) % 360) - 180, for finite prev and next
headingDiff(prev, next) == JsRem(next.val - prev.val + Deg(540), FullTurn) - Deg(180)

\* smoothing helper for headings (handles wrap-around)
smoothHeading(prev, next) ==
    IF ~IsNumber(next) \/ IsNaN(next) THEN prev
    ELSE IF ~IsNumber(prev) \/ IsNaN(prev) THEN next
    ELSE IF ~IsFinite(prev) \/ ~IsFinite(next) THEN NaN   \* (+-Infinity) % 360 is NaN
    ELSE LET diff == headingDiff(prev, next)
         IN  Num(JsRem(prev.val + (HEADING_SMOOTHING_ALPHA * diff) \div 100 + FullTurn,
                       FullTurn))

\* 0.18 * diff is a multiple of 1/Scale degree: smoothHeading's result is exact
Representable(prev, next) ==
    (IsFinite(next) /\ IsFinite(prev))
        => (HEADING_SMOOTHING_ALPHA * (next.val - prev.val)) % 100 = 0

ISqrt(n) == CHOOSE r \in 0..(n + 1) : r * r <= n /\ (r + 1) * (r + 1) > n

\* haversine distance, in decimetres.  On the grid (angles below 1e-5 rad)
\* sin x = x, cos x = 1 and atan2(sqrt a, sqrt(1-a)) = sqrt a to 12 digits.
calculateDistance(lat1, lon1, lat2, lon2) ==
    LET dLat == lat2 - lat1
        dLon == lon2 - lon1
        a4 == dLat * dLat + dLon * dLon         \* 4a, in grid steps squared
    IN  ISqrt(a4 * DM_PER_STEP * DM_PER_STEP)   \* R * c

(* JSON text of a path: a sequence of characters, a coordinate written as the
   decimal numeral of its grid count *)
DigitChars == <<"0", "1", "2", "3", "4", "5", "6", "7", "8", "9">>

RECURSIVE Digits(_)
Digits(n) ==
    IF n < 10 THEN <<DigitChars[n + 1]>>
    ELSE Digits(n \div 10) \o <<DigitChars[(n % 10) + 1]>>

\* variant: the sign of a negative coordinate is lost
NumberTextUnsigned(v) == Digits(IF v < 0 THEN -v ELSE v)

NumberText(v) == IF v < 0 THEN <<"-">> \o Digits(-v) ELSE Digits(v)

PairText(p) == <<"[">> \o NumberText(p[1]) \o <<",">> \o NumberText(p[2]) \o <<"]">>

RECURSIVE PairsText(_)
PairsText(path) ==
    IF path = <<>> THEN <<>>
    ELSE IF Len(path) = 1 THEN PairText(path[1])
    ELSE PairText(path[1]) \o <<",">> \o PairsText(Tail(path))

\* JSON.stringify(state.pathCoords)
JSONstringify(path) == [tag |-> "json", text |-> <<"[">> \o PairsText(path) \o <<"]">>]

IsDigit(c) == \E d \in 1..10 : DigitChars[d] = c
DigitValue(c) == CHOOSE d \in 0..9 : DigitChars[d + 1] = c

\* the numeral that starts at text[i]: its value and the index after it
RECURSIVE ReadDigits(_, _, _)
ReadDigits(text, i, acc) ==
    IF i <= Len(text) /\ IsDigit(text[i])
    THEN ReadDigits(text, i + 1, acc * 10 + DigitValue(text[i]))
    ELSE [val |-> acc, next |-> i]

ReadNumber(text, i) ==
    IF text[i] = "-"
    THEN LET r == ReadDigits(text, i + 1, 0) IN [val |-> -r.val, next |-> r.next]
    ELSE ReadDigits(text, i, 0)

\* the pairs from text[i] on, appended to acc
RECURSIVE ReadPairs(_, _, _)
ReadPairs(text, i, acc) ==
    LET lat == ReadNumber(text, i + 1)
        lon == ReadNumber(text, lat.next + 1)
        after == lon.next + 1
        pairs == Append(acc, <<lat.val, lon.val>>)
    IN  IF text[after] = "," THEN ReadPairs(text, after + 1, pairs) ELSE pairs

\* JSON.parse(saved), for a text written by JSONstringify
JSONparse(item) ==
    IF item.text[2] = "]" THEN <<>> ELSE ReadPairs(item.text, 2, <<>>)

\* the value state.pathCoords has after loadSavedPath
loadSavedPath(item) ==
    IF item # NoItem /\ Len(JSONparse(item)) > 0 THEN JSONparse(item) ELSE <<>>

\* variant: only the new point is written, not the whole path
savePathToStorageLastPoint(item, path, ok) ==
    IF ok THEN JSONstringify(<<path[Len(path)]>>) ELSE item

\* the item after savePathToStorage; ok = FALSE when setItem throws
savePathToStorage(item, path, ok) == IF ok THEN JSONstringify(path) ELSE item

updateAccuracyCircle(lat, lon, accuracy) ==
    [tag |-> "circle", lat |-> lat, lon |-> lon, radius |-> accuracy.val]

createRotatingMarker(lat, lon) ==
    [tag |-> "marker", lat |-> lat, lon |-> lon, rotation |-> Num(0), popup |-> NoPopup]

rotateMarkerTo(m, heading) ==
    IF m = NoMarker THEN m
    ELSE [m EXCEPT !.rotation = IF IsNumber(heading) /\ ~IsNaN(heading)
                                 THEN heading ELSE Num(0)]

quickPopup(lat, lon) == [tag |-> "quick", lat |-> lat, lon |-> lon]
addressPopup(lat, lon) == [tag |-> "address", lat |-> lat, lon |-> lon]

showQuickCoordinates(m, lat, lon) ==
    IF m = NoMarker THEN m ELSE [m EXCEPT !.popup = quickPopup(lat, lon)]

\* the status element after showStatus(message, type)
showStatus(message, type) == [text |-> message, type |-> type, visible |-> TRUE]

errorMessage(code) ==
    CASE code = 1 -> "Location access denied. Please enable location permissions to use this feature."
      [] code = 2 -> "Location information is unavailable."
      [] code = 3 -> "The request to get your location timed out."
      [] OTHER -> "An unknown error occurred."

----------------------------------------------------------------------------
(* Pieces of updatePosition and updateAddress *)

\* const accuracy = position.coords.accuracy || 20
effectiveAccuracy(accuracy) ==
    IF Truthy(accuracy) THEN accuracy ELSE Num(DEFAULT_ACCURACY)

\* variant: >= instead of >
isImpreciseFromLimit(accuracy) == IsNumber(accuracy) /\ accuracy.val >= MIN_GEOCODE_ACCURACY

\* typeof accuracy === 'number' && accuracy > MIN_GEOCODE_ACCURACY
isImprecise(accuracy) == IsNumber(accuracy) /\ accuracy.val > MIN_GEOCODE_ACCURACY

\* typeof position.coords.heading === 'number' && !isNaN(position.coords.heading)
headingAfterSample(heading, observed) ==
    IF IsNumber(observed) /\ ~IsNaN(observed)
    THEN smoothHeading(heading, observed) ELSE heading

\* variant: unshift instead of push
pushPointAtFront(path, lat, lon) == <<(<<lat, lon>>)>> \o path

\* state.pathCoords.push([lat, lon])
pushPoint(path, lat, lon) == Append(path, <<lat, lon>>)

\* create the marker, or move and rotate the existing one
placeMarker(m, lat, lon, heading) ==
    IF m = NoMarker THEN createRotatingMarker(lat, lon)
    ELSE rotateMarkerTo([m EXCEPT !.lat = lat, !.lon = lon], heading)

\* variant: the distance is compared with the accuracy limit, 60 m
shouldGeocodeWrongLimit(pos, lat, lon) ==
    IF pos = NoPos THEN TRUE
    ELSE calculateDistance(pos[1], pos[2], lat, lon) >= MIN_GEOCODE_ACCURACY * 10

\* shouldGeocode after the distance check
shouldGeocode(pos, lat, lon) ==
    IF pos = NoPos THEN TRUE
    ELSE calculateDistance(pos[1], pos[2], lat, lon) >= GEOCODE_DISTANCE_THRESHOLD * 10

\* variant: a new lookup also waits until no lookup is pending
throttleElapsedAndIdle(now, last) == (now - last) > GEOCODE_TIME_THROTTLE /\ inflight = {}

\* variant: >= instead of >
throttleElapsedInclusive(now, last) == (now - last) >= GEOCODE_TIME_THROTTLE

\* (now - state.lastGeocodeTime) > state.GEOCODE_TIME_THROTTLE
throttleElapsed(now, last) == (now - last) > GEOCODE_TIME_THROTTLE

\* variant: the position is recorded, the time is not
recordAttemptWithoutTime(now, lat, lon) == <<lastGeocodeTime, <<lat, lon>>>>

\* the gate <<lastGeocodeTime, lastGeocodePos>> written before the lookup is awaited
recordAttempt(now, lat, lon) == <<now, <<lat, lon>>>>

Lookup(lat, lon, accuracy, now) ==
    [lat |-> lat, lon |-> lon, accuracy |-> accuracy.val, start |-> now]

Event(kind, outcome) == [kind |-> kind, outcome |-> outcome]

----------------------------------------------------------------------------
(* Initial state: after init() has run *)

InitialItems == {NoItem, JSONstringify(<<<<0, 0>>>>)}
NoProbe == [prev |-> Null, next |-> Null, result |-> Null, applied |-> FALSE]

\* everything but the probe, when init() runs at clock reading now
LoadedAt(now) ==
    /\ hasGeolocation \in BOOLEAN
    /\ orientationApi \in {"none", "direct", "permission"}
    /\ clock = now
    /\ activeWatches = {}
    /\ listeners = {}
    /\ pendingPermission = 0
    /\ inflight = {}
    /\ hideTimers = 0
    /\ storage \in InitialItems
    /\ status = [text |-> "", type |-> "none", visible |-> TRUE]
    /\ marker = NoMarker
    /\ watchId = Null
    /\ accuracyCircle = NoCircle
    /\ pathCoords = loadSavedPath(storage)
    /\ pathLine = pathCoords
    /\ mapCenter = <<0, 0>>
    /\ currentHeading = Null
    /\ deviceOrientationActive = FALSE
    /\ lastGeocodeTime = 0
    /\ lastGeocodePos = NoPos
    /\ issued = <<>>
    /\ lastEvent = Event("init", "done")

Loaded == LoadedAt(StartClock)

Init == Loaded /\ probe = NoProbe

----------------------------------------------------------------------------
(* Tracking session: startTracking, stopTracking, device orientation *)

OrientationEvents == {"deviceorientationabsolute", "deviceorientation"}

\* navigator.geolocation.watchPosition returns an id that is not in use
NewWatchId == CHOOSE id \in 1..(Cardinality(activeWatches) + 1) : id \notin activeWatches

frameSession == <<hasGeolocation, orientationApi, clock, inflight, storage, marker,
                  accuracyCircle, pathLine, mapCenter, pathCoords, currentHeading,
                  issued, probe>>
gateVars == <<lastGeocodeTime, lastGeocodePos>>

\* what startTracking does to everything but the geocode gate
startTrackingBody ==
    /\ lastEvent' = Event("startTracking",
                          IF ~hasGeolocation THEN "unsupported"
                          ELSE IF Truthy(watchId) THEN "already" ELSE "started")
    /\ IF ~hasGeolocation
       THEN /\ status' = showStatus("Geolocation is not supported by your browser.", "error")
            /\ UNCHANGED <<hideTimers, watchId, activeWatches, listeners,
                           deviceOrientationActive, pendingPermission>>
       ELSE IF Truthy(watchId)
       THEN /\ status' = showStatus("Already tracking location.", "error")
            /\ UNCHANGED <<hideTimers, watchId, activeWatches, listeners,
                           deviceOrientationActive, pendingPermission>>
       ELSE /\ hideTimers < MaxTimers
            /\ status' = showStatus("Starting tracking...", "success")
            /\ hideTimers' = hideTimers + 1
            /\ watchId' = Num(NewWatchId)
            /\ activeWatches' = activeWatches \cup {NewWatchId}
            \* initDeviceOrientation
            /\ CASE orientationApi = "permission" ->
                      /\ pendingPermission < MaxPending
                      /\ pendingPermission' = pendingPermission + 1
                      /\ UNCHANGED <<listeners, deviceOrientationActive>>
                 [] orientationApi = "direct" ->
                      /\ listeners' = listeners \cup OrientationEvents
                      /\ deviceOrientationActive' = TRUE
                      /\ UNCHANGED pendingPermission
                 [] OTHER ->
                      UNCHANGED <<listeners, deviceOrientationActive, pendingPermission>>
    /\ UNCHANGED frameSession

\* a variant that clears the geocode gate whenever a session begins
StartTrackingResetsGate ==
    /\ startTrackingBody
    /\ IF hasGeolocation /\ ~Truthy(watchId)
       THEN lastGeocodeTime' = 0 /\ lastGeocodePos' = NoPos
       ELSE UNCHANGED gateVars

StartTracking ==
    /\ startTrackingBody
    /\ UNCHANGED gateVars

\* the body of stopTracking, shared with handleGeolocationError
stopTrackingBody ==
    /\ hideTimers < MaxTimers
    /\ IF Truthy(watchId)
       THEN /\ activeWatches' = activeWatches \ {watchId.val}
            /\ watchId' = Null
       ELSE UNCHANGED <<activeWatches, watchId>>
    /\ status' = showStatus("Tracking stopped.", "success")
    /\ hideTimers' = hideTimers + 1
    \* cleanupDeviceOrientation
    /\ IF deviceOrientationActive
       THEN /\ listeners' = listeners \ OrientationEvents
            /\ deviceOrientationActive' = FALSE
       ELSE UNCHANGED <<listeners, deviceOrientationActive>>
    /\ UNCHANGED <<pendingPermission, gateVars>>
    /\ UNCHANGED frameSession

StopTracking ==
    /\ stopTrackingBody
    /\ lastEvent' = Event("stopTracking", "done")

\* variant: the error is shown, tracking is not stopped
HandleGeolocationErrorOnlyShows(code) ==
    /\ activeWatches # {}
    /\ status' = showStatus(errorMessage(code), "error")
    /\ lastEvent' = Event("handleGeolocationError", "stopped")
    /\ UNCHANGED <<hideTimers, watchId, activeWatches, listeners,
                   deviceOrientationActive, pendingPermission, gateVars>>
    /\ UNCHANGED frameSession

\* the location stream reports an error: showError(message), then stopTracking()
HandleGeolocationError(code) ==
    /\ activeWatches # {}
    /\ stopTrackingBody
    /\ lastEvent' = Event("handleGeolocationError", "stopped")

\* the promise of DeviceOrientationEvent.requestPermission() resolves
PermissionResolved(response) ==
    /\ pendingPermission > 0
    /\ pendingPermission' = pendingPermission - 1
    /\ IF response = "granted"
       THEN \* setupDeviceOrientationListeners
            /\ listeners' = listeners \cup OrientationEvents
            /\ deviceOrientationActive' = TRUE
       ELSE UNCHANGED <<listeners, deviceOrientationActive>>
    /\ UNCHANGED <<hideTimers, status, watchId, activeWatches, gateVars, lastEvent>>
    /\ UNCHANGED frameSession

\* variant: the event's value replaces the estimate instead of being smoothed in
HandleDeviceOrientationOverwrites(alpha) ==
    /\ listeners # {}
    /\ Representable(currentHeading, alpha)
    /\ IF IsNumber(alpha)
       THEN /\ currentHeading' = alpha
            /\ marker' = rotateMarkerTo(marker, currentHeading')
       ELSE UNCHANGED <<currentHeading, marker>>
    /\ UNCHANGED <<platformVars, watchId, accuracyCircle, pathLine, mapCenter,
                   pathCoords, deviceOrientationActive, lastGeocodeTime,
                   lastGeocodePos, issued, lastEvent, probe>>

\* handleDeviceOrientation(event), alpha = event.alpha
HandleDeviceOrientation(alpha) ==
    /\ listeners # {}
    /\ Representable(currentHeading, alpha)
    /\ IF IsNumber(alpha)
       THEN /\ currentHeading' = smoothHeading(currentHeading, alpha)
            /\ marker' = rotateMarkerTo(marker, currentHeading')
       ELSE UNCHANGED <<currentHeading, marker>>
    /\ UNCHANGED <<platformVars, watchId, accuracyCircle, pathLine, mapCenter,
                   pathCoords, deviceOrientationActive, lastGeocodeTime,
                   lastGeocodePos, issued, lastEvent, probe>>

----------------------------------------------------------------------------
(* Location samples: updatePosition up to the await in updateAddress *)

frameSample == <<hasGeolocation, orientationApi, clock, activeWatches, listeners,
                 pendingPermission, watchId, deviceOrientationActive, probe>>

Accept(s, accuracy, saveOk) ==
    LET lat == s.lat
        lon == s.lon
        heading == headingAfterSample(currentHeading, s.heading)
        path == pushPoint(pathCoords, lat, lon)
        placed == placeMarker(marker, lat, lon, heading)
        \* updateAddress(lat, lon, accuracy)
        now == clock
        attempt == /\ ~isImprecise(accuracy)
                   /\ shouldGeocode(lastGeocodePos, lat, lon)
                   /\ throttleElapsed(now, lastGeocodeTime)
        gate == recordAttempt(now, lat, lon)
    IN  /\ Len(pathCoords) < MaxPath
        /\ Representable(currentHeading, s.heading)
        /\ currentHeading' = heading
        /\ pathCoords' = path
        /\ storage' = savePathToStorage(storage, path, saveOk)
        /\ pathLine' = path
        /\ accuracyCircle' = updateAccuracyCircle(lat, lon, accuracy)
        /\ mapCenter' = <<lat, lon>>
        /\ IF attempt
           THEN /\ lastGeocodeTime' = gate[1]
                /\ lastGeocodePos' = gate[2]
                /\ inflight' = inflight \cup {Lookup(lat, lon, accuracy, now)}
                /\ issued' = Append(issued, now)
                /\ marker' = placed
                /\ lastEvent' = Event("updatePosition", "attempt")
           ELSE /\ marker' = showQuickCoordinates(placed, lat, lon)
                /\ lastEvent' = Event("updatePosition", "skip")
                /\ UNCHANGED <<lastGeocodeTime, lastGeocodePos, inflight, issued>>
        /\ UNCHANGED <<hideTimers, status>>

\* variant: the early return is missing and the sample goes down the accepted path
DeferFallsThrough(s, accuracy) == Accept(s, accuracy, TRUE)

\* the fix is not precise enough: status and accuracy circle only
Defer(s, accuracy) ==
    /\ status' = showStatus("Waiting for accurate GPS fix", "error")
    /\ accuracyCircle' = updateAccuracyCircle(s.lat, s.lon, accuracy)
    /\ lastEvent' = Event("updatePosition", "defer")
    /\ UNCHANGED <<hideTimers, inflight, storage, marker, pathLine, mapCenter,
                   pathCoords, currentHeading, lastGeocodeTime, lastGeocodePos, issued>>

\* variant: the exception of setItem is not caught and ends the handler after the push
updatePositionBodyAbortsOnSaveFailure(s, saveOk) ==
    /\ activeWatches # {}
    /\ LET accuracy == effectiveAccuracy(s.accuracy)
       IN  IF isImprecise(accuracy)
           THEN Defer(s, accuracy)
           ELSE IF saveOk
           THEN Accept(s, accuracy, TRUE)
           ELSE /\ Len(pathCoords) < MaxPath
                /\ Representable(currentHeading, s.heading)
                /\ currentHeading' = headingAfterSample(currentHeading, s.heading)
                /\ pathCoords' = pushPoint(pathCoords, s.lat, s.lon)
                /\ lastEvent' = Event("updatePosition", "skip")
                /\ UNCHANGED <<storage, pathLine, accuracyCircle, mapCenter, marker,
                               lastGeocodeTime, lastGeocodePos, inflight, issued,
                               hideTimers, status>>
    /\ UNCHANGED frameSample

\* updatePosition for sample s; saveOk = FALSE when localStorage.setItem throws
updatePositionBody(s, saveOk) ==
    /\ activeWatches # {}
    /\ LET accuracy == effectiveAccuracy(s.accuracy)
       IN  IF isImprecise(accuracy)
           THEN Defer(s, accuracy)
           ELSE Accept(s, accuracy, saveOk)
    /\ UNCHANGED frameSample

\* updatePosition while the storage has room
UpdatePosition(s) == updatePositionBody(s, TRUE)

----------------------------------------------------------------------------
(* Continuations and the environment *)

frameLookup == <<hasGeolocation, orientationApi, clock, activeWatches, listeners,
                 pendingPermission, hideTimers, storage, status, watchId,
                 accuracyCircle, pathLine, mapCenter, pathCoords, currentHeading,
                 deviceOrientationActive, lastGeocodeTime, lastGeocodePos,
                 issued, probe>>

\* variant: the resolution also puts the marker back on the looked-up position
LookupResolvedMovesMarker(l) ==
    /\ l \in inflight
    /\ inflight' = inflight \ {l}
    /\ marker' = IF marker # NoMarker
                 THEN [marker EXCEPT !.popup = addressPopup(l.lat, l.lon),
                                     !.lat = l.lat, !.lon = l.lon]
                 ELSE marker
    /\ lastEvent' = Event("updateAddress", "resolved")
    /\ UNCHANGED frameLookup

\* getAddress resolves: bind the address popup if the marker exists
LookupResolved(l) ==
    /\ l \in inflight
    /\ inflight' = inflight \ {l}
    /\ marker' = IF marker # NoMarker
                 THEN [marker EXCEPT !.popup = addressPopup(l.lat, l.lon)]
                 ELSE marker
    /\ lastEvent' = Event("updateAddress", "resolved")
    /\ UNCHANGED frameLookup

\* variant: a failed lookup clears the gate, so that the next sample tries again
LookupFailedClearsGate(l) ==
    /\ l \in inflight
    /\ inflight' = inflight \ {l}
    /\ marker' = showQuickCoordinates(marker, l.lat, l.lon)
    /\ lastGeocodeTime' = 0
    /\ lastGeocodePos' = NoPos
    /\ lastEvent' = Event("updateAddress", "failed")
    /\ UNCHANGED <<hasGeolocation, orientationApi, clock, activeWatches, listeners,
                   pendingPermission, hideTimers, storage, status, watchId,
                   accuracyCircle, pathLine, mapCenter, pathCoords, currentHeading,
                   deviceOrientationActive, issued, probe>>

\* getAddress throws (network error or !response.ok): quick coordinates
LookupFailed(l) ==
    /\ l \in inflight
    /\ inflight' = inflight \ {l}
    /\ marker' = showQuickCoordinates(marker, l.lat, l.lon)
    /\ lastEvent' = Event("updateAddress", "failed")
    /\ UNCHANGED frameLookup

\* a timer armed by showStatus(..., "success") fires
HideTimerFires ==
    /\ hideTimers > 0
    /\ hideTimers' = hideTimers - 1
    /\ status' = [status EXCEPT !.visible = FALSE]
    /\ UNCHANGED <<hasGeolocation, orientationApi, clock, activeWatches, listeners,
                   pendingPermission, inflight, storage, stateVars, issued, lastEvent,
                   probe>>

\* time passes
Tick(d) ==
    /\ clock + d <= MaxClock
    /\ clock' = clock + d
    /\ UNCHANGED <<hasGeolocation, orientationApi, activeWatches, listeners,
                   pendingPermission, inflight, hideTimers, storage, status,
                   stateVars, issued, lastEvent, probe>>

Next ==
    \/ StartTracking
    \/ StopTracking
    \/ \E code \in ErrorCodes : HandleGeolocationError(code)
    \/ \E response \in {"granted", "denied"} : PermissionResolved(response)
    \/ \E alpha \in Alphas : HandleDeviceOrientation(alpha)
    \/ \E s \in Samples : UpdatePosition(s)
    \/ \E l \in inflight : LookupResolved(l)
    \/ \E l \in inflight : LookupFailed(l)
    \/ HideTimerFires
    \/ \E d \in ClockSteps : Tick(d)

Spec == Init /\ [][Next]_vars

----------------------------------------------------------------------------
(* Vocabulary of the properties *)

\* the accuracy the pipeline works with, in metres: a missing value counts as 20
EffectiveMetres(s) ==
    IF s.accuracy.tag = "num" /\ s.accuracy.val # 0 THEN s.accuracy.val ELSE 20

Deferred(s) == EffectiveMetres(s) > 60
Accepted(s) == EffectiveMetres(s) <= 60

\* the step is a run of updatePosition
SampleStep == \E s \in Samples : UpdatePosition(s)

\* the step is a run of handleGeolocationError
StreamErrorStep == \E code \in ErrorCodes : HandleGeolocationError(code)

\* the step issues a reverse-geocode lookup for sample s at the current clock reading
IssuesLookupFor(s) ==
    /\ issued' = Append(issued, clock)
    /\ \E l \in inflight' \ inflight :
          /\ l.lat = s.lat /\ l.lon = s.lon /\ l.start = clock
          /\ inflight' = inflight \cup {l}

IssuesNoLookup == issued' = issued /\ inflight' \subseteq inflight

IsPrefix(p, q) == Len(p) <= Len(q) /\ SubSeq(q, 1, Len(p)) = p

----------------------------------------------------------------------------
\* C1: a sample whose effective accuracy is above 60 m changes only the accuracy
\* circle and the status; path, persisted path, marker, heading and gate stay as
\* they are and no lookup is issued; a marker, once created, is never removed.
C1_DeferChangesOnlyCircleAndStatus ==
    [][/\ \A s \in Samples :
            (UpdatePosition(s) /\ Deferred(s)) =>
                /\ UNCHANGED <<pathCoords, storage, pathLine, marker, currentHeading,
                               lastGeocodeTime, lastGeocodePos, watchId>>
                /\ IssuesNoLookup
                /\ accuracyCircle'.lat = s.lat /\ accuracyCircle'.lon = s.lon
                /\ accuracyCircle'.radius = EffectiveMetres(s)
                /\ status'.type = "error" /\ status'.visible
       /\ (marker # NoMarker => marker' # NoMarker)
      ]_vars

\* a deferred sample arrived after an accepted one: the circle left the marker
C1_Witness ==
    /\ lastEvent = Event("updatePosition", "defer")
    /\ marker # NoMarker
    /\ pathCoords # <<>>
    /\ <<accuracyCircle.lat, accuracyCircle.lon>> # <<marker.lat, marker.lon>>

\* C2: a lookup is issued for a sample if and only if its accuracy is at most 60,
\* no attempt position is recorded or the recorded one is at least 20 m away, and
\* more than 1100 ms have passed since lastGeocodeTime; an accepted sample that
\* issues no lookup shows its quick coordinates.
C2_Eligible(s) ==
    /\ EffectiveMetres(s) <= 60
    /\ \/ lastGeocodePos = NoPos
       \/ calculateDistance(lastGeocodePos[1], lastGeocodePos[2], s.lat, s.lon) >= 200
    /\ clock - lastGeocodeTime > 1100

C2_LookupIffEligible ==
    [][\A s \in Samples :
          UpdatePosition(s) =>
              /\ C2_Eligible(s) => IssuesLookupFor(s)
              /\ ~C2_Eligible(s) => IssuesNoLookup
              /\ (~C2_Eligible(s) /\ Accepted(s)) =>
                     marker'.popup = quickPopup(s.lat, s.lon)
      ]_vars

\* a sample far enough from the recorded position was refused by the clock, and
\* another lookup had been issued before
C2_Witness ==
    /\ lastEvent = Event("updatePosition", "skip")
    /\ lastGeocodePos # NoPos
    /\ calculateDistance(lastGeocodePos[1], lastGeocodePos[2], marker.lat, marker.lon) >= 200
    /\ marker.popup = quickPopup(marker.lat, marker.lon)
    /\ clock - lastGeocodeTime = 1100

\* C3: any two lookups that were issued started more than 1100 ms apart, however
\* long the lookups take and in whatever order they resolve.
C3_LookupsMoreThanThrottleApart ==
    \A i, j \in DOMAIN issued : i < j => issued[j] - issued[i] > 1100

\* the second lookup was issued while the first was still pending
C3_Witness ==
    /\ Len(issued) = 2
    /\ Cardinality(inflight) = 2

\* C4: lastGeocodePos and lastGeocodeTime change only together and only in a step
\* that issues a lookup, to that sample's position and time; lastGeocodePos is
\* none exactly when no lookup has been issued.
C4_GateChangesOnlyOnAttempt ==
    /\ [][/\ (lastGeocodeTime' # lastGeocodeTime \/ lastGeocodePos' # lastGeocodePos) =>
               /\ lastGeocodeTime' # lastGeocodeTime
               /\ lastGeocodePos' # lastGeocodePos
               /\ lastGeocodeTime' = clock
               /\ \E s \in Samples :
                     /\ UpdatePosition(s)
                     /\ IssuesLookupFor(s)
                     /\ lastGeocodePos' = <<s.lat, s.lon>>
          /\ issued' # issued =>
               (lastGeocodeTime' = clock /\ lastGeocodePos' # lastGeocodePos)
         ]_vars
    /\ [](lastGeocodePos = NoPos <=> issued = <<>>)

\* a sample eligible by distance was throttled by time and the gate kept the
\* earlier attempt
C4_Witness ==
    /\ lastEvent = Event("updatePosition", "skip")
    /\ Len(issued) = 1
    /\ lastGeocodePos # <<marker.lat, marker.lon>>
    /\ calculateDistance(lastGeocodePos[1], lastGeocodePos[2], marker.lat, marker.lon) >= 200
    /\ lastGeocodeTime = issued[1]

\* C5 as stated: a startTracking that begins a session leaves the gate at none
C5_StartResetsGate ==
    lastEvent = Event("startTracking", "started") =>
        (lastGeocodePos = NoPos /\ lastGeocodeTime = 0)

\* C5, amended: startTracking leaves the gate as it is; the gate is none from
\* page load until the first lookup and is never cleared after it, so the first
\* accepted sample after page load issues a lookup once the clock reads more
\* than 1100, and the first sample of a later session is throttled against the
\* last attempt of the earlier one.
C5_GateOutlivesSessions ==
    [][/\ StartTracking => UNCHANGED <<lastGeocodeTime, lastGeocodePos>>
       /\ lastGeocodePos # NoPos =>
              (lastGeocodePos' # NoPos /\ lastGeocodeTime' >= lastGeocodeTime)
       /\ \A s \in Samples :
             (/\ UpdatePosition(s) /\ Accepted(s)
              /\ lastGeocodePos = NoPos /\ clock > 1100) => IssuesLookupFor(s)
      ]_vars

\* a session has begun with the gate of an earlier session still recorded
C5_Witness ==
    /\ lastEvent = Event("startTracking", "started")
    /\ lastGeocodePos # NoPos
    /\ lastGeocodeTime = issued[Len(issued)]

\* C6: pathCoords is append-only: every step leaves the earlier path as a prefix,
\* an accepted sample appends exactly its own point at the end and sets the
\* polyline to the whole path, and nothing else changes the path.
C6_PathAppendOnly ==
    [][/\ IsPrefix(pathCoords, pathCoords')
       /\ \A s \in Samples :
             (UpdatePosition(s) /\ Accepted(s)) =>
                 /\ pathCoords' = pathCoords \o <<(<<s.lat, s.lon>>)>>
                 /\ pathLine' = pathCoords'
       /\ pathCoords' # pathCoords =>
             /\ SampleStep
             /\ Len(pathCoords') = Len(pathCoords) + 1
      ]_vars

\* two accepted samples from an empty persisted path, the session stopped since
C6_Witness ==
    /\ Len(pathCoords) = 2
    /\ pathCoords[1] # pathCoords[2]
    /\ pathLine = pathCoords
    /\ storage = JSONstringify(pathCoords)
    /\ watchId = Null

\* C7: currentHeading is absent or a number in [0, 360).
C7_HeadingInRange ==
    \/ currentHeading = Null
    \/ /\ currentHeading.tag = "num"
       /\ currentHeading.val >= 0
       /\ currentHeading.val < 360 * Scale

\* smoothing from 350 towards 100 crossed north: 350 + 0.18 * 110 - 360 = 9.8
C7_Witness ==
    /\ currentHeading.tag = "num"
    /\ currentHeading.val * 10 = 98 * Scale

----------------------------------------------------------------------------
(* smoothHeading on its own: every pair of headings on a 10-degree grid, and
   the smoothing repeated towards the same observed value for as long as the
   result is exactly representable *)

HeadingGrid == {10 * k : k \in 0..35}

InitSmooth ==
    /\ Loaded
    /\ hasGeolocation /\ orientationApi = "direct" /\ storage = NoItem
    /\ \E a, b \in HeadingGrid :
          probe = [prev |-> Num(Deg(a)), next |-> Num(Deg(b)),
                   result |-> Num(Deg(a)), applied |-> FALSE]

SmoothStep ==
    /\ Representable(probe.result, probe.next)
    /\ probe' = [prev |-> probe.result, next |-> probe.next,
                 result |-> smoothHeading(probe.result, probe.next), applied |-> TRUE]
    /\ UNCHANGED <<platformVars, stateVars, issued, lastEvent>>

NextSmooth == SmoothStep

SpecSmooth == InitSmooth /\ [][NextSmooth]_vars

\* the shortest angular distance between two headings, in units of 1/Scale degree
AngularDistance(a, b) ==
    LET d == IF a >= b THEN a - b ELSE b - a
    IN  IF d <= 180 * Scale THEN d ELSE 360 * Scale - d

\* C8: one smoothing step leaves 0.82 of the shortest angular distance to the
\* observed heading and lands on the shorter arc between the two, so repeating
\* it approaches the observed heading without passing the opposite bearing.
C8_StepShrinksShortestArc ==
    probe.applied =>
        LET p == probe.prev.val
            o == probe.next.val
            r == probe.result.val
        IN  /\ 50 * AngularDistance(r, o) = 41 * AngularDistance(p, o)
            /\ AngularDistance(p, r) + AngularDistance(r, o) = AngularDistance(p, o)
            /\ r >= 0 /\ r < 360 * Scale

\* smooth(350, 10) = 353.6
C8_Witness ==
    /\ probe.applied
    /\ probe.prev = Num(350 * Scale)
    /\ probe.next = Num(10 * Scale)
    /\ probe.result.val * 10 = 3536 * Scale

----------------------------------------------------------------------------
\* C9 as stated: outside a session (watchId is null) no location watch is
\* active, no orientation listener is registered and deviceOrientationActive
\* is false.
C9_StoppedMeansUnsubscribed ==
    watchId = Null =>
        (activeWatches = {} /\ listeners = {} /\ ~deviceOrientationActive)

\* C10: when handleGeolocationError has run, watchId is null, no watch is active
\* and the orientation listeners are removed; and a watch becomes active again
\* only in a startTracking step.
C10_StreamErrorStopsTracking ==
    [][/\ StreamErrorStep =>
              /\ watchId' = Null
              /\ activeWatches' = {}
              /\ listeners' = {}
              /\ ~deviceOrientationActive'
       /\ ((watchId = Null /\ watchId' # Null) \/ (activeWatches = {} /\ activeWatches' # {}))
              => StartTracking
      ]_vars

\* an error ended a session that had an accepted sample and a smoothed heading
C10_Witness ==
    /\ lastEvent = Event("handleGeolocationError", "stopped")
    /\ watchId = Null
    /\ activeWatches = {}
    /\ listeners = {}
    /\ marker # NoMarker
    /\ currentHeading # Null

----------------------------------------------------------------------------
\* C11 as stated: once handleGeolocationError has completed, the status shows
\* the message of the error code, with error severity.
C11_ErrorMessageShown ==
    lastEvent = Event("handleGeolocationError", "stopped") =>
        /\ status.type = "error"
        /\ status.text \in {errorMessage(code) : code \in ErrorCodes}

\* C12: when a lookup fails, the quick coordinates of its sample are shown, the
\* status is not touched, tracking goes on, and nothing is retried: the gate
\* keeps the time and position of the failed attempt, and the next sample issues
\* a lookup exactly when it passes the distance and throttle tests against them.
C12_FailedLookupDegradesQuietly ==
    [][/\ \A l \in inflight :
             LookupFailed(l) =>
                 /\ marker'.popup = quickPopup(l.lat, l.lon)
                 /\ inflight' = inflight \ {l}
                 /\ UNCHANGED <<status, hideTimers, watchId, activeWatches, listeners,
                                lastGeocodeTime, lastGeocodePos, issued, pathCoords,
                                storage>>
       /\ \A s \in Samples :
             (UpdatePosition(s) /\ lastEvent = Event("updateAddress", "failed")) =>
                 /\ C2_Eligible(s) => IssuesLookupFor(s)
                 /\ ~C2_Eligible(s) => IssuesNoLookup
      ]_vars

\* the only lookup of a running session has failed: quick coordinates of its
\* sample, the gate still on it, the status still the one of startTracking
C12_Witness ==
    /\ lastEvent = Event("updateAddress", "failed")
    /\ watchId # Null
    /\ inflight = {}
    /\ Len(issued) = 1
    /\ lastGeocodePos # NoPos
    /\ lastGeocodeTime = issued[1]
    /\ marker.popup = quickPopup(lastGeocodePos[1], lastGeocodePos[2])
    /\ status.type = "success"

\* C13: an accepted sample that arrives while lookups are pending is processed
\* in full in its own step: point appended and persisted, marker moved, polyline,
\* accuracy circle and view centre updated, no pending lookup awaited; and if it
\* comes more than 1100 ms after the start of the pending latest attempt and at
\* least 20 m from its position, it issues a second lookup while the first is
\* still pending.
C13_SamplesProcessedWhileLookupPending ==
    [][\A s \in Samples :
          (UpdatePosition(s) /\ Accepted(s) /\ inflight # {}) =>
              /\ pathCoords' = pathCoords \o <<(<<s.lat, s.lon>>)>>
              /\ storage' = JSONstringify(pathCoords')
              /\ marker'.lat = s.lat /\ marker'.lon = s.lon
              /\ pathLine' = pathCoords'
              /\ accuracyCircle'.lat = s.lat /\ accuracyCircle'.lon = s.lon
              /\ accuracyCircle'.radius = EffectiveMetres(s)
              /\ mapCenter' = <<s.lat, s.lon>>
              /\ inflight \subseteq inflight'
              /\ \A l \in inflight :
                    (/\ l.start = lastGeocodeTime
                     /\ <<l.lat, l.lon>> = lastGeocodePos
                     /\ clock - l.start > 1100
                     /\ calculateDistance(l.lat, l.lon, s.lat, s.lon) >= 200)
                        => (IssuesLookupFor(s) /\ l \in inflight')
      ]_vars

\* the second sample was processed and started its own lookup while the lookup
\* of the first was still pending
C13_Witness ==
    /\ lastEvent = Event("updatePosition", "attempt")
    /\ Cardinality(inflight) = 2
    /\ Len(pathCoords) = 2
    /\ storage = JSONstringify(pathCoords)
    /\ mapCenter = <<marker.lat, marker.lon>>
    /\ mapCenter = pathCoords[2]

\* C14: a lookup that resolves or fails, during a session or after stopTracking,
\* changes nothing but the popup of the marker: path, persisted path, polyline,
\* gate, heading, watch, listeners and status stay as they are, and the marker
\* keeps its position and rotation; a lookup is pending only when a marker
\* exists, and without a marker the delivery would change nothing at all.
C14_LateDeliveryOnlyTouchesPopup ==
    /\ [][\A l \in inflight :
             (LookupResolved(l) \/ LookupFailed(l)) =>
                 /\ UNCHANGED <<pathCoords, storage, pathLine, mapCenter, accuracyCircle,
                                lastGeocodeTime, lastGeocodePos, currentHeading, watchId,
                                activeWatches, listeners, status>>
                 /\ IF marker = NoMarker
                    THEN marker' = NoMarker
                    ELSE marker' = [marker EXCEPT !.popup = marker'.popup]
         ]_vars
    /\ [](inflight # {} => marker # NoMarker)

\* the address arrived after stopTracking while the marker had moved on: the
\* popup names the looked-up position, the marker stays on the later one
C14_Witness ==
    /\ lastEvent = Event("updateAddress", "resolved")
    /\ watchId = Null
    /\ activeWatches = {}
    /\ marker.popup.tag = "address"
    /\ <<marker.popup.lat, marker.popup.lon>> # <<marker.lat, marker.lon>>
    /\ Len(pathCoords) = 2

----------------------------------------------------------------------------
(* The validator of updatePosition on its own: one session, samples at (0,0)
   whose accuracy is missing, NaN, 0, or a value around the limit *)

AccuracyInputs == {Null, NaN, Num(0), Num(59), Num(60), Num(61)}
ValidatorSamples == {Sample(0, 0, a, Null) : a \in AccuracyInputs}

InitValidator ==
    /\ Loaded
    /\ hasGeolocation /\ orientationApi = "none" /\ storage = NoItem
    /\ probe = NoProbe

ValidateStep == \E s \in ValidatorSamples : UpdatePosition(s)

NextValidator ==
    \/ StartTracking
    \/ ValidateStep
    \/ \E l \in inflight : LookupResolved(l)
    \/ HideTimerFires

SpecValidator == InitValidator /\ [][NextValidator]_vars

\* C15: a sample is accepted exactly when its effective accuracy is at most 60 m,
\* a missing, NaN or zero accuracy counting as 20: 61 is deferred, 59 and 60 are
\* accepted, and a sample without accuracy is accepted and drawn with a circle of
\* 20 m; the circle always takes the effective accuracy as its radius.
C15_AcceptIffWithinSixtyMetres ==
    [][\A s \in ValidatorSamples :
          UpdatePosition(s) =>
              /\ accuracyCircle'.radius = EffectiveMetres(s)
              /\ IF EffectiveMetres(s) <= 60
                 THEN /\ pathCoords' = pathCoords \o <<(<<s.lat, s.lon>>)>>
                      /\ marker' # NoMarker
                      /\ lastEvent'.outcome \in {"attempt", "skip"}
                 ELSE /\ UNCHANGED <<pathCoords, storage, marker, lastGeocodePos>>
                      /\ lastEvent'.outcome = "defer"
                      /\ status'.type = "error"
      ]_vars

\* a sample without a usable accuracy value was accepted and drawn with 20 m
C15_Witness ==
    /\ lastEvent = Event("updatePosition", "attempt")
    /\ Len(pathCoords) = 1
    /\ accuracyCircle # NoCircle
    /\ accuracyCircle.radius = 20
    /\ marker # NoMarker

----------------------------------------------------------------------------
(* The throttle scenario on a clock that starts at 0: samples at (0,0),
   (0,0.0001) and (0,0.0003), the clock advancing by 500 and 700 ms *)

ScenarioSamples == {Sample(0, 0, Null, Null),
                    Sample(0, 1, Null, Null),
                    Sample(0, 3, Null, Null)}
ScenarioSteps == {500, 700}

InitThrottle ==
    /\ LoadedAt(0)
    /\ hasGeolocation /\ orientationApi = "none" /\ storage = NoItem
    /\ probe = NoProbe

ScenarioSample == \E s \in ScenarioSamples : UpdatePosition(s)

ScenarioTick ==
    \E d \in ScenarioSteps :
        /\ clock + d <= ScenarioEnd
        /\ clock' = clock + d
        /\ UNCHANGED <<hasGeolocation, orientationApi, activeWatches, listeners,
                       pendingPermission, inflight, hideTimers, storage, status,
                       stateVars, issued, lastEvent, probe>>

NextThrottle ==
    \/ StartTracking
    \/ ScenarioSample
    \/ ScenarioTick
    \/ \E l \in inflight : LookupResolved(l)

SpecThrottle == InitThrottle /\ [][NextThrottle]_vars

\* C16 as stated: with no attempt recorded the first accepted sample issues a
\* lookup whatever the clock reads; a sample 500 ms after the attempt at the same
\* position issues none; a sample 1200 ms after it about 11 m away issues none
\* and leaves the gate; a sample 1200 ms after it about 33 m away issues one.
C16_ThrottleScenario ==
    [][\A s \in ScenarioSamples :
          UpdatePosition(s) =>
              /\ lastGeocodePos = NoPos => IssuesLookupFor(s)
              /\ (/\ lastGeocodePos = <<0, 0>> /\ clock - lastGeocodeTime = 500
                  /\ s.lon = 0) => IssuesNoLookup
              /\ (/\ lastGeocodePos = <<0, 0>> /\ clock - lastGeocodeTime = 1200
                  /\ s.lon = 1) =>
                     (IssuesNoLookup /\ UNCHANGED <<lastGeocodeTime, lastGeocodePos>>)
              /\ (/\ lastGeocodePos = <<0, 0>> /\ clock - lastGeocodeTime = 1200
                  /\ s.lon = 3) => IssuesLookupFor(s)
      ]_vars

----------------------------------------------------------------------------
\* heading r is what one smoothing step makes of estimate h and observation o:
\* the observation itself when there is no estimate, else the point of the
\* shorter arc from h to o that leaves 0.82 of the angular distance
HeadingFollows(h, o, r) ==
    IF h = Null THEN r = o
    ELSE /\ r.tag = "num" /\ r.val >= 0 /\ r.val < 360 * Scale
         /\ 50 * AngularDistance(r.val, o.val) = 41 * AngularDistance(h.val, o.val)
         /\ AngularDistance(h.val, r.val) + AngularDistance(r.val, o.val)
                = AngularDistance(h.val, o.val)

OrientationObservation(a) == HandleDeviceOrientation(a) /\ IsFinite(a)
LocationObservation(s) == UpdatePosition(s) /\ Accepted(s) /\ IsFinite(s.heading)

\* C17: orientation events and accepted samples with a heading work on the one
\* currentHeading: each of them replaces it by the smoothing of the value it had
\* just before with the observed value, the first observation of either source
\* is taken as it is, and nothing else changes currentHeading.
C17_OneSharedHeadingEstimate ==
    [][/\ \A a \in Alphas :
             OrientationObservation(a) =>
                 /\ HeadingFollows(currentHeading, a, currentHeading')
                 /\ currentHeading' = smoothHeading(currentHeading, a)
       /\ \A s \in Samples :
             LocationObservation(s) =>
                 /\ HeadingFollows(currentHeading, s.heading, currentHeading')
                 /\ currentHeading' = smoothHeading(currentHeading, s.heading)
       /\ currentHeading' # currentHeading =>
             \/ \E a \in Alphas : OrientationObservation(a)
             \/ \E s \in Samples : LocationObservation(s)
      ]_vars

\* the location stream gave 100 first and an orientation event of 350 was
\* smoothed into it: 100 - 0.18 * 110 = 80.2, and the marker shows it
C17_Witness ==
    /\ currentHeading.tag = "num"
    /\ currentHeading.val * 10 = 802 * Scale
    /\ marker # NoMarker
    /\ marker.rotation = currentHeading

----------------------------------------------------------------------------
(* Observations that are not finite numbers, delivered through both handlers
   of one session: NaN, +Infinity, -Infinity and a value that is not a number *)

MalformedInputs == {NaN, PosInfinity, NegInfinity, Null}
MalformedSamples == {Sample(0, 0, Null, o) : o \in MalformedInputs}
FiniteAlphas == {Num(Deg(90))}

InitMalformed ==
    /\ Loaded
    /\ hasGeolocation /\ orientationApi = "direct" /\ storage = NoItem
    /\ probe = NoProbe

NextMalformed ==
    \/ StartTracking
    \/ \E a \in FiniteAlphas \cup MalformedInputs : HandleDeviceOrientation(a)
    \/ \E s \in MalformedSamples : UpdatePosition(s)
    \/ HideTimerFires

SpecMalformed == InitMalformed /\ [][NextMalformed]_vars

\* C18 as stated: an observation that is not a finite number, delivered by an
\* orientation event or by a location sample, leaves currentHeading as it was,
\* because smoothHeading returns the previous value for it.
C18_MalformedObservationIgnored ==
    [][/\ \A o \in MalformedInputs :
             HandleDeviceOrientation(o) =>
                 /\ smoothHeading(currentHeading, o) = currentHeading
                 /\ currentHeading' = currentHeading
       /\ \A s \in MalformedSamples :
             UpdatePosition(s) => currentHeading' = currentHeading
      ]_vars

----------------------------------------------------------------------------
(* Sessions on a storage whose writes may fail (quota exceeded): the same
   handlers, with the outcome of localStorage.setItem left open *)

InitStorage ==
    /\ Loaded
    /\ hasGeolocation /\ orientationApi = "none"
    /\ probe = NoProbe

\* updatePosition, the write succeeding or throwing
UpdatePositionOnStorage(s) == \E saveOk \in BOOLEAN : updatePositionBody(s, saveOk)

NextStorage ==
    \/ StartTracking
    \/ StopTracking
    \/ \E s \in Samples : UpdatePositionOnStorage(s)
    \/ \E l \in inflight : LookupResolved(l)
    \/ HideTimerFires
    \/ \E d \in ClockSteps : Tick(d)

SpecStorage == InitStorage /\ [][NextStorage]_vars

\* the step is a run of updatePosition on an accepted sample
AcceptedWith(s, saveOk) == updatePositionBody(s, saveOk) /\ Accepted(s)

\* C19: an accepted sample whose write succeeds leaves the persisted item equal
\* to the whole updated pathCoords; the path changes only in such a step or in
\* one whose write failed, and the item changes only in a step whose write
\* succeeded.  So after a successful write the item equals pathCoords until the
\* next accepted sample.
C19_WriteThroughPath ==
    [][/\ \A s \in Samples :
             AcceptedWith(s, TRUE) =>
                 /\ pathCoords' = pathCoords \o <<(<<s.lat, s.lon>>)>>
                 /\ storage' = JSONstringify(pathCoords')
                 /\ JSONparse(storage') = pathCoords'
       /\ storage' # storage => \E s \in Samples : AcceptedWith(s, TRUE)
       /\ pathCoords' # pathCoords =>
             \E s \in Samples, saveOk \in BOOLEAN : AcceptedWith(s, saveOk)
       /\ (storage = JSONstringify(pathCoords) /\ storage' # JSONstringify(pathCoords'))
             => \E s \in Samples : AcceptedWith(s, FALSE)
      ]_vars

\* a restored path grew by one point and the write went through
C19_Witness ==
    /\ lastEvent.kind = "updatePosition"
    /\ Len(pathCoords) = 2
    /\ pathCoords[1] = <<0, 0>>
    /\ pathCoords[2] = <<1, 2>>
    /\ storage = JSONstringify(pathCoords)
    /\ mapCenter = <<1, 2>>

\* C20: when the write fails for an accepted sample the point is appended all
\* the same, the item keeps its old content, marker, polyline, accuracy circle,
\* view and the geocode decision are those of the sample, watch and status are
\* untouched; and later accepted samples append whatever the state of the item.
C20_SaveFailureSwallowed ==
    [][/\ \A s \in Samples :
             AcceptedWith(s, FALSE) =>
                 /\ pathCoords' = pathCoords \o <<(<<s.lat, s.lon>>)>>
                 /\ storage' = storage
                 /\ marker' # NoMarker /\ marker'.lat = s.lat /\ marker'.lon = s.lon
                 /\ pathLine' = pathCoords'
                 /\ accuracyCircle'.lat = s.lat /\ accuracyCircle'.lon = s.lon
                 /\ accuracyCircle'.radius = EffectiveMetres(s)
                 /\ mapCenter' = <<s.lat, s.lon>>
                 /\ C2_Eligible(s) => IssuesLookupFor(s)
                 /\ ~C2_Eligible(s) =>
                        (IssuesNoLookup /\ marker'.popup = quickPopup(s.lat, s.lon))
                 /\ UNCHANGED <<watchId, activeWatches, status, hideTimers>>
       /\ \A s \in Samples, saveOk \in BOOLEAN :
             (AcceptedWith(s, saveOk) /\ storage # JSONstringify(pathCoords)) =>
                 pathCoords' = pathCoords \o <<(<<s.lat, s.lon>>)>>
      ]_vars

\* two writes in a row have failed: nothing is persisted, the path holds both
\* points, the marker is on the second and the session is still running
C20_Witness ==
    /\ lastEvent.kind = "updatePosition"
    /\ storage = NoItem
    /\ Len(pathCoords) = 2
    /\ pathLine = pathCoords
    /\ <<marker.lat, marker.lon>> = pathCoords[2]
    /\ watchId # Null
    /\ activeWatches # {}

----------------------------------------------------------------------------
(* Restore and save again: every path of up to MaxRestored points, written by
   savePathToStorage, read by loadSavedPath at startup and written once more *)

RestorePoints == {<<0, 0>>, <<-1, 2>>, <<10, -25>>, <<123, 4>>}
RestoredPaths ==
    UNION {[1..n -> RestorePoints] : n \in 0..MaxRestored}

InitRestore ==
    /\ Loaded
    /\ hasGeolocation /\ orientationApi = "none" /\ storage = NoItem
    /\ \E P \in RestoredPaths :
          probe = [path |-> P, before |-> savePathToStorage(NoItem, P, TRUE),
                   loaded |-> <<>>, after |-> NoItem, applied |-> FALSE]

RestoreStep ==
    /\ ~probe.applied
    /\ LET loaded == loadSavedPath(probe.before)
       IN  probe' = [probe EXCEPT !.loaded = loaded,
                                  !.after = savePathToStorage(probe.before, loaded, TRUE),
                                  !.applied = TRUE]
    /\ UNCHANGED <<platformVars, stateVars, issued, lastEvent>>

NextRestore == RestoreStep

SpecRestore == InitRestore /\ [][NextRestore]_vars

\* C21: for a path P written by savePathToStorage, loadSavedPath followed by
\* savePathToStorage leaves the stored text as it was, character by character,
\* and the loaded pathCoords equals P.
C21_RestoreThenSaveIsIdentity ==
    probe.applied =>
        /\ probe.after = probe.before
        /\ probe.loaded = probe.path

\* a path of three points with negative and multi-digit coordinates went
\* through the round trip
C21_Witness ==
    /\ probe.applied
    /\ probe.path = <<(<<-1, 2>>), (<<10, -25>>), (<<123, 4>>)>>
    /\ probe.loaded = probe.path
    /\ probe.after.text = probe.before.text
    /\ Len(probe.before.text) = 25

----------------------------------------------------------------------------
\* C22 as stated: the difference lies in (-180, 180]: -180 is excluded and an
\* exact half-turn gives +180.
C22_DiffInUpperClosedRange ==
    LET d == headingDiff(probe.prev, probe.next)
    IN  /\ d > -(180 * Scale)
        /\ d <= 180 * Scale

\* C22, amended: the difference smoothHeading works with is congruent to
\* observed - previous modulo 360 and lies in [-180, 180): +180 is excluded and
\* an exact half-turn gives -180, so the estimate then turns anticlockwise.
C22_DiffInLowerClosedRange ==
    LET p == probe.prev.val
        o == probe.next.val
        d == headingDiff(probe.prev, probe.next)
    IN  /\ d >= -(180 * Scale)
        /\ d < 180 * Scale
        /\ (d - (o - p)) % (360 * Scale) = 0
        /\ AngularDistance(p, o) = 180 * Scale => d = -(180 * Scale)
        /\ probe.applied =>
               probe.result.val = (p + (18 * d) \div 100 + 360 * Scale) % (360 * Scale)

\* a half-turn from 0 to 180: the step went anticlockwise, to 360 - 32.4 = 327.6
C22_Witness ==
    /\ probe.applied
    /\ probe.prev = Num(0)
    /\ probe.next = Num(180 * Scale)
    /\ probe.result.val * 10 = 3276 * Scale

----------------------------------------------------------------------------
\* C23: when updatePosition has run for an accepted sample, first or later, the
\* marker is at the sample's position and its rotation is the current smoothed
\* heading (0 only while no heading has been observed).
C23_MarkerShowsPositionAndHeading ==
    [][\A s \in Samples :
          (UpdatePosition(s) /\ Accepted(s)) =>
              /\ marker' # NoMarker
              /\ marker'.lat = s.lat
              /\ marker'.lon = s.lon
              /\ marker'.rotation =
                     (IF currentHeading' = Null THEN Num(0) ELSE currentHeading')]_vars

----------------------------------------------------------------------------
(* The older variant of the page, src/unnamed/part_000.  It has no status
   element (it uses alert), no accuracy validator and no smoothing; the map is
   created by the first sample, and the saved path is read in startTracking.
   Its globals are kept in the variables of the same name; mapCenter = NoPos
   while map is undefined, and hideTimers counts the pending setTimeout(..., 0)
   callbacks of createRotatingMarker, the only timers of the variant. *)

MaxVariantPath == 3   \* longest pathCoords explored in the variant

VariantSamples == {Sample(0, 0, Null, Null), Sample(1, 2, Num(60), Num(100 * Scale))}

\* pathCoords after the restore of startTracking: pathCoords.push(...arr)
variantRestore(path, item) ==
    IF item # NoItem /\ Len(JSONparse(item)) > 0 THEN path \o JSONparse(item) ELSE path

\* rotateMarkerTo of the variant
variantRotateMarkerTo(m, heading) ==
    IF m = NoMarker THEN m
    ELSE [m EXCEPT !.rotation = IF IsNumber(heading) /\ ~IsNaN(heading)
                                 THEN heading ELSE Num(0)]

\* the marker createRotatingMarker returns; its rotation is applied by a timer
variantCreateRotatingMarker(lat, lon) ==
    [tag |-> "marker", lat |-> lat, lon |-> lon, rotation |-> Num(0), popup |-> NoPopup]

\* haversine distance, in decimetres
distanceMeters(lat1, lon1, lat2, lon2) == calculateDistance(lat1, lon1, lat2, lon2)

\* the popup makePopupHtml builds; found = FALSE when getAddress gave no address
makePopupHtml(lat, lon, found) ==
    [tag |-> IF found THEN "address" ELSE "notfound", lat |-> lat, lon |-> lon]

InitVariant ==
    /\ hasGeolocation \in BOOLEAN
    /\ orientationApi \in {"none", "direct", "permission"}
    /\ clock = StartClock
    /\ activeWatches = {}
    /\ listeners = {}
    /\ pendingPermission = 0
    /\ inflight = {}
    /\ hideTimers = 0
    /\ storage \in InitialItems
    /\ status = [text |-> "", type |-> "none", visible |-> TRUE]
    /\ marker = NoMarker
    /\ watchId = Null
    /\ accuracyCircle = NoCircle
    /\ pathLine = <<>>
    /\ mapCenter = NoPos
    /\ pathCoords = <<>>
    /\ currentHeading = Null
    /\ deviceOrientationActive = FALSE
    /\ lastGeocodeTime = 0
    /\ lastGeocodePos = NoPos
    /\ issued = <<>>
    /\ lastEvent = Event("load", "done")
    /\ probe = NoProbe

\* startTracking of the variant
VariantStartTracking ==
    /\ lastEvent' = Event("startTracking",
                          IF ~hasGeolocation THEN "unsupported"
                          ELSE IF Truthy(watchId) THEN "already" ELSE "started")
    /\ IF ~hasGeolocation \/ Truthy(watchId)
       THEN UNCHANGED <<pendingPermission, listeners, deviceOrientationActive,
                        pathCoords, watchId, activeWatches>>
       ELSE /\ Len(variantRestore(pathCoords, storage)) <= MaxVariantPath
            /\ CASE ~deviceOrientationActive /\ orientationApi = "permission" ->
                      /\ pendingPermission < MaxPending
                      /\ pendingPermission' = pendingPermission + 1
                      /\ UNCHANGED <<listeners, deviceOrientationActive>>
                 [] ~deviceOrientationActive /\ orientationApi = "direct" ->
                      /\ listeners' = listeners \cup OrientationEvents
                      /\ deviceOrientationActive' = TRUE
                      /\ UNCHANGED pendingPermission
                 [] OTHER ->
                      UNCHANGED <<pendingPermission, listeners, deviceOrientationActive>>
            \* restore saved path if present
            /\ pathCoords' = variantRestore(pathCoords, storage)
            /\ watchId' = Num(NewWatchId)
            /\ activeWatches' = activeWatches \cup {NewWatchId}
    /\ UNCHANGED <<hasGeolocation, orientationApi, clock, inflight, hideTimers, storage,
                   status, marker, accuracyCircle, pathLine, mapCenter, currentHeading,
                   lastGeocodeTime, lastGeocodePos, issued, probe>>

\* the promise of requestPermission() made in startTracking resolves
VariantPermissionResolved(response) ==
    /\ pendingPermission > 0
    /\ pendingPermission' = pendingPermission - 1
    /\ IF response = "granted"
       THEN /\ listeners' = listeners \cup OrientationEvents
            /\ deviceOrientationActive' = TRUE
       ELSE UNCHANGED <<listeners, deviceOrientationActive>>
    /\ UNCHANGED <<hasGeolocation, orientationApi, clock, activeWatches, inflight,
                   hideTimers, storage, status, marker, watchId, accuracyCircle,
                   pathLine, mapCenter, pathCoords, currentHeading, lastGeocodeTime,
                   lastGeocodePos, issued, lastEvent, probe>>

\* stopTracking of the variant
VariantStopTracking ==
    /\ IF Truthy(watchId)
       THEN /\ activeWatches' = activeWatches \ {watchId.val}
            /\ watchId' = Null
       ELSE UNCHANGED <<activeWatches, watchId>>
    /\ IF deviceOrientationActive
       THEN /\ listeners' = listeners \ OrientationEvents
            /\ deviceOrientationActive' = FALSE
       ELSE UNCHANGED <<listeners, deviceOrientationActive>>
    /\ lastEvent' = Event("stopTracking", "done")
    /\ UNCHANGED <<hasGeolocation, orientationApi, clock, pendingPermission, inflight,
                   hideTimers, storage, status, marker, accuracyCircle, pathLine,
                   mapCenter, pathCoords, currentHeading, lastGeocodeTime,
                   lastGeocodePos, issued, probe>>

\* the text showError puts in its alert
variantErrorMessage(code) ==
    CASE code = 1 -> "User denied the request for Geolocation."
      [] code = 2 -> "Location information is unavailable."
      [] code = 3 -> "The request to get user location timed out."
      [] OTHER -> "An unknown error occurred."

\* showError of the variant: an alert, tracking goes on
VariantShowError(code) ==
    /\ activeWatches # {}
    /\ lastEvent' = Event("showError", variantErrorMessage(code))
    /\ UNCHANGED <<platformVars, stateVars, issued, probe>>

\* handleDeviceOrientation of the variant: the heading is overwritten
VariantHandleDeviceOrientation(alpha) ==
    /\ listeners # {}
    /\ IF IsNumber(alpha)
       THEN /\ currentHeading' = alpha
            /\ marker' = variantRotateMarkerTo(marker, alpha)
       ELSE UNCHANGED <<currentHeading, marker>>
    /\ UNCHANGED <<platformVars, watchId, accuracyCircle, pathLine, mapCenter,
                   pathCoords, deviceOrientationActive, lastGeocodeTime,
                   lastGeocodePos, issued, lastEvent, probe>>

\* updatePosition of the variant, up to the await of getAddress;
\* saveOk = FALSE when localStorage.setItem throws
VariantUpdatePosition(s, saveOk) ==
    LET lat == s.lat
        lon == s.lon
        heading == IF IsNumber(s.heading) /\ ~IsNaN(s.heading)
                   THEN s.heading ELSE currentHeading
        path == Append(pathCoords, <<lat, lon>>)
        placed == IF mapCenter = NoPos
                  THEN variantCreateRotatingMarker(lat, lon)
                  ELSE variantRotateMarkerTo([marker EXCEPT !.lat = lat, !.lon = lon],
                                             heading)
        accuracy == IF Truthy(s.accuracy) THEN s.accuracy ELSE Num(DEFAULT_ACCURACY)
        now == clock
        doGeocode == IF lastGeocodePos = NoPos THEN TRUE
                     ELSE distanceMeters(lastGeocodePos[1], lastGeocodePos[2], lat, lon)
                              >= GEOCODE_DISTANCE_THRESHOLD * 10
    IN  /\ activeWatches # {}
        /\ Len(pathCoords) < MaxVariantPath
        /\ mapCenter = NoPos => hideTimers < MaxTimers
        /\ currentHeading' = heading
        /\ pathCoords' = path
        /\ storage' = IF saveOk THEN JSONstringify(path) ELSE storage
        /\ mapCenter' = IF mapCenter = NoPos THEN path[Len(path)] ELSE <<lat, lon>>
        /\ hideTimers' = IF mapCenter = NoPos THEN hideTimers + 1 ELSE hideTimers
        /\ pathLine' = path
        /\ accuracyCircle' = [tag |-> "circle", lat |-> lat, lon |-> lon,
                              radius |-> accuracy.val]
        /\ IF doGeocode /\ (now - lastGeocodeTime) > GEOCODE_TIME_THROTTLE
           THEN /\ lastGeocodeTime' = now
                /\ lastGeocodePos' = <<lat, lon>>
                /\ inflight' = inflight \cup {Lookup(lat, lon, accuracy, now)}
                /\ issued' = Append(issued, now)
                /\ marker' = placed
                /\ lastEvent' = Event("updatePosition", "attempt")
           ELSE /\ marker' = variantRotateMarkerTo(
                                 [placed EXCEPT !.popup = quickPopup(lat, lon)], heading)
                /\ lastEvent' = Event("updatePosition", "skip")
                /\ UNCHANGED <<lastGeocodeTime, lastGeocodePos, inflight, issued>>
        /\ UNCHANGED <<hasGeolocation, orientationApi, clock, activeWatches, listeners,
                       pendingPermission, status, watchId, deviceOrientationActive,
                       probe>>

\* getAddress returns: the rest of updatePosition binds the popup and rotates
VariantLookupResolved(l, found) ==
    /\ l \in inflight
    /\ inflight' = inflight \ {l}
    /\ marker' = variantRotateMarkerTo(
                     [marker EXCEPT !.popup = makePopupHtml(l.lat, l.lon, found)],
                     currentHeading)
    /\ UNCHANGED <<hasGeolocation, orientationApi, clock, activeWatches, listeners,
                   pendingPermission, hideTimers, storage, status, watchId,
                   accuracyCircle, pathLine, mapCenter, pathCoords, currentHeading,
                   deviceOrientationActive, lastGeocodeTime, lastGeocodePos,
                   issued, lastEvent, probe>>

\* the callback createRotatingMarker scheduled with setTimeout(..., 0) runs
VariantRotateTimerFires ==
    /\ hideTimers > 0
    /\ hideTimers' = hideTimers - 1
    /\ marker' = variantRotateMarkerTo(marker, currentHeading)
    /\ UNCHANGED <<hasGeolocation, orientationApi, clock, activeWatches, listeners,
                   pendingPermission, inflight, storage, status, watchId,
                   accuracyCircle, pathLine, mapCenter, pathCoords, currentHeading,
                   deviceOrientationActive, lastGeocodeTime, lastGeocodePos,
                   issued, lastEvent, probe>>

NextVariant ==
    \/ VariantStartTracking
    \/ VariantStopTracking
    \/ \E response \in {"granted", "denied"} : VariantPermissionResolved(response)
    \/ \E code \in ErrorCodes : VariantShowError(code)
    \/ \E alpha \in Alphas : VariantHandleDeviceOrientation(alpha)
    \/ \E s \in VariantSamples : \E saveOk \in BOOLEAN : VariantUpdatePosition(s, saveOk)
    \/ \E l \in inflight : \E found \in BOOLEAN : VariantLookupResolved(l, found)
    \/ VariantRotateTimerFires
    \/ \E d \in ClockSteps : Tick(d)

SpecVariant == InitVariant /\ [][NextVariant]_vars

\* C24: in the variant the saved path is restored once, into the empty
\* in-memory path which it replaces; after that pathCoords changes only by a
\* processed sample appending its own point.  So every persisted point and every
\* processed sample is in pathCoords exactly once, whatever the sequence of
\* startTracking and stopTracking calls.
C24_RestoreOnceNoDuplicates ==
    [][\/ pathCoords' = pathCoords
       \/ /\ VariantStartTracking
          /\ pathCoords = <<>>
          /\ pathCoords' = JSONparse(storage)
       \/ \E s \in VariantSamples :
              /\ \E saveOk \in BOOLEAN : VariantUpdatePosition(s, saveOk)
              /\ pathCoords' = Append(pathCoords, <<s.lat, s.lon>>)]_vars

----------------------------------------------------------------------------
\* C25: whenever no lookup is in flight, the popup describes the most recently
\* accepted sample, the one the marker stands on: a lookup started for an older
\* sample does not replace the popup of a newer one when it resolves or fails.
C25_PopupDescribesLatestSample ==
    (inflight = {} /\ marker # NoMarker /\ marker.popup # NoPopup) =>
        <<marker.popup.lat, marker.popup.lon>> = <<marker.lat, marker.lon>>

----------------------------------------------------------------------------
\* C26: a status of error severity stays visible until another status replaces
\* it; the timer armed by a success status hides only that success message.
C26_ErrorStatusStaysVisible ==
    status.type = "error" => status.visible

====
